---- MODULE Spec2Model ----
(***************************************************************************)
(* Data-access layer of lib/supabase.ts: the two tables stock_queries and  *)
(* session, and the exported helpers that read and write them.  A helper   *)
(* issues one store call per step; updatePreviousDayRealPrice issues two   *)
(* (a lookup, then an update by row id), so other clients' calls may run   *)
(* between them.                                                           *)
(*                                                                         *)
(* A nullable column holds {} for NULL and {v} for the value v.  An        *)
(* optional property of an argument object is a key that is or is not in   *)
(* the DOMAIN of the record.  Strings that the code splits are sequences   *)
(* of one-character strings.                                               *)
(***************************************************************************)
EXTENDS Integers, Sequences, FiniteSets, TLC

VARIABLES
    stock_queries,   \* table stock_queries: a set of rows
    session,         \* table session: a set of entries
    pc,              \* per client: "idle", or "update" between the two calls of updatePreviousDayRealPrice
    local,           \* per client: the locals of its updatePreviousDayRealPrice in flight
    call,            \* the exported function called last, with its arguments
    ret              \* how that call ended: the value returned or the error thrown, and whether console.error ran

vars == <<stock_queries, session, pc, local, call, ret>>

----------------------------------------------------------------------------
(* Bounds of the model *)

\* concurrent callers of the library
NClients == 2
\* from_date values are 1..MaxDate (ISO dates, compared as the store compares them)
MaxDate == 2
\* rows the interleaved specification lets stock_queries grow to
MaxRows == 2
\* longest emiten filter string
MaxLen == 3
\* rows of the largest stock_queries table of the pagination specification
MaxPageRows == 51

Clients == 1 .. NClients
Dates == 1 .. MaxDate
Chars == {"A", "B", " "}
Emitens == {<<"A">>, <<"B">>}
Statuses == {"success", "error"}
Hargas == {1}
Prices == {7}
Keys == {"k"}
Values == {"v", "w"}
Times == {1}

NULL == {}

----------------------------------------------------------------------------
(* The store: upsert with onConflict, as the client library performs it *)

\* the column value an upsert payload gives: NULL when the property is absent
Val(data, k) == IF k \in DOMAIN data THEN {data[k]} ELSE NULL

\* the row id the store assigns on insert: unique per inserted row, and kept by
\* an upsert that updates the row
RowId(data) == <<data.emiten, data.from_date>>

NewRow(data) ==
    [ id         |-> RowId(data),
      emiten     |-> data.emiten,
      from_date  |-> data.from_date,
      sector     |-> Val(data, "sector"),
      status     |-> Val(data, "status"),
      harga      |-> Val(data, "harga"),
      real_harga |-> NULL ]

MergeRow_DoNothing(r, data) == r

\* ON CONFLICT DO UPDATE: the columns of the payload overwrite, the rest stay
MergeRow(r, data) ==
    [ k \in DOMAIN r |->
        IF k \in DOMAIN data
        THEN (IF k \in {"emiten", "from_date"} THEN data[k] ELSE {data[k]})
        ELSE r[k] ]

Conflicts(table, data) ==
    { r \in table : r.from_date = data.from_date /\ r.emiten = data.emiten }

UpsertStockQueries_NoConflict(table, data) == table \cup {NewRow(data)}

UpsertStockQueries(table, data) ==
    IF Conflicts(table, data) = {}
    THEN table \cup {NewRow(data)}
    ELSE (table \ Conflicts(table, data))
            \cup { MergeRow(r, data) : r \in Conflicts(table, data) }

\* the rows .select() returns after the upsert
Upserted(table, data) == Conflicts(UpsertStockQueries(table, data), data)

UpsertSessionTable(table, entry) ==
    { e \in table : e.key # entry.key } \cup {entry}

----------------------------------------------------------------------------
(* Return values *)

NoCall == [op |-> "none"]
Pending == [outcome |-> "pending"]

\* error: the error the failed store call answered with, "none" when none failed
Returned(value, logged, error) ==
    [outcome |-> "return", logged |-> logged, error |-> error, value |-> value]

Thrown(logged, error) ==
    [outcome |-> "throw", logged |-> logged, error |-> error]

Null == [kind |-> "null"]
Rows(s) == [kind |-> "rows", data |-> s]
Row(r) == [kind |-> "row", data |-> r]
Str(v) == [kind |-> "string", data |-> v]
Page(s, n) == [kind |-> "page", data |-> s, count |-> n]

NoLocal == [op |-> "none"]

----------------------------------------------------------------------------
(* saveStockQuery / saveWatchlistAnalysis *)

\* payloads of saveStockQuery: its parameter type has no status property
StockQueryData ==
    { [emiten |-> e, from_date |-> d, harga |-> h] :
        e \in Emitens, d \in Dates, h \in Hargas }

\* payloads of saveWatchlistAnalysis: harga is optional and left out here
WatchlistData ==
    { [emiten |-> e, from_date |-> d, status |-> s] :
        e \in Emitens, d \in Dates, s \in Statuses }

\* the model inserts no row into a table of MaxRows rows
CanStore(table, data) ==
    Conflicts(table, data) # {} \/ Cardinality(table) < MaxRows

SaveStockQuery(c, data, err) ==
    /\ pc[c] = "idle"
    /\ CanStore(stock_queries, data)
    /\ call' = [op |-> "saveStockQuery", data |-> data]
    /\ IF err
       THEN /\ ret' = Thrown(TRUE, "upsert:error")
            /\ UNCHANGED stock_queries
       ELSE /\ stock_queries' = UpsertStockQueries(stock_queries, data)
            /\ ret' = Returned(Rows(Upserted(stock_queries, data)), FALSE, "none")
    /\ UNCHANGED <<session, pc, local>>

SaveWatchlistAnalysis(c, data, err) ==
    /\ pc[c] = "idle"
    /\ CanStore(stock_queries, data)
    /\ call' = [op |-> "saveWatchlistAnalysis", data |-> data]
    /\ IF err
       THEN /\ ret' = Thrown(TRUE, "upsert:error")
            /\ UNCHANGED stock_queries
       ELSE /\ stock_queries' = UpsertStockQueries(stock_queries, data)
            /\ ret' = Returned(Rows(Upserted(stock_queries, data)), FALSE, "none")
    /\ UNCHANGED <<session, pc, local>>

----------------------------------------------------------------------------
(* getSessionValue / upsertSession *)

SessionRows(table, key) == { e \in table : e.key = key }

\* .single(): an error unless exactly one row matches
GetSessionValue(c, key, err) ==
    /\ pc[c] = "idle"
    /\ call' = [op |-> "getSessionValue", key |-> key]
    /\ \/ /\ err
          /\ ret' = Returned(Null, FALSE, "select:error")
       \/ /\ ~err
          /\ Cardinality(SessionRows(session, key)) # 1
          /\ ret' = Returned(Null, FALSE, "select:PGRST116")
       \/ /\ ~err
          /\ Cardinality(SessionRows(session, key)) = 1
          /\ \E e \in SessionRows(session, key) :
                ret' = Returned(Str(e.value), FALSE, "none")
    /\ UNCHANGED <<stock_queries, session, pc, local>>

UpsertSession(c, key, value, now, err) ==
    /\ pc[c] = "idle"
    /\ call' = [op |-> "upsertSession", key |-> key, value |-> value]
    /\ IF err
       THEN /\ ret' = Thrown(FALSE, "upsert:error")
            /\ UNCHANGED session
       ELSE /\ session' = UpsertSessionTable(session,
                            [key |-> key, value |-> value, updated_at |-> now])
            /\ ret' = Returned(Rows(SessionRows(session', key)), FALSE, "none")
    /\ UNCHANGED <<stock_queries, pc, local>>

----------------------------------------------------------------------------
(* getLatestStockQuery *)

Earliest(rows) == { r \in rows : \A x \in rows : x.from_date >= r.from_date }

\* .order('from_date', {ascending: false}).limit(1): a row with the greatest from_date
Latest(rows) == { r \in rows : \A x \in rows : x.from_date <= r.from_date }

LatestSuccess(table, emiten) ==
    Latest({ r \in table : r.emiten = emiten /\ r.status = {"success"} })

GetLatestStockQuery(c, emiten, err) ==
    /\ pc[c] = "idle"
    /\ call' = [op |-> "getLatestStockQuery", emiten |-> emiten]
    /\ \/ /\ err
          /\ ret' = Returned(Null, FALSE, "select:error")
       \/ /\ ~err
          /\ LatestSuccess(stock_queries, emiten) = {}
          /\ ret' = Returned(Null, FALSE, "select:PGRST116")
       \/ /\ ~err
          /\ \E r \in LatestSuccess(stock_queries, emiten) :
                ret' = Returned(Row(r), FALSE, "none")
    /\ UNCHANGED <<stock_queries, session, pc, local>>

----------------------------------------------------------------------------
(* updatePreviousDayRealPrice: step 1, the lookup; step 2, the update by id *)

PreviousSuccess_Inclusive(table, emiten, currentDate) ==
    Latest({ r \in table : /\ r.emiten = emiten
                           /\ r.status = {"success"}
                           /\ r.from_date <= currentDate })

PreviousSuccess_AnyStatus(table, emiten, currentDate) ==
    Latest({ r \in table : r.emiten = emiten /\ r.from_date < currentDate })

PreviousSuccess(table, emiten, currentDate) ==
    Latest({ r \in table : /\ r.emiten = emiten
                           /\ r.status = {"success"}
                           /\ r.from_date < currentDate })

\* findError: PGRST116 when .single() finds no row; only another error is logged
UpdatePreviousDayRealPriceFind(c, emiten, currentDate, price, err) ==
    /\ pc[c] = "idle"
    /\ call' = [ op |-> "updatePreviousDayRealPrice", emiten |-> emiten,
                 currentDate |-> currentDate, price |-> price ]
    /\ \/ /\ err
          /\ ret' = Returned(Null, TRUE, "select:error")
          /\ UNCHANGED <<pc, local>>
       \/ /\ ~err
          /\ PreviousSuccess(stock_queries, emiten, currentDate) = {}
          /\ ret' = Returned(Null, FALSE, "select:PGRST116")
          /\ UNCHANGED <<pc, local>>
       \/ /\ ~err
          /\ \E r \in PreviousSuccess(stock_queries, emiten, currentDate) :
                local' = [local EXCEPT ![c] =
                            [ op |-> "updatePreviousDayRealPrice",
                              emiten |-> emiten, currentDate |-> currentDate,
                              price |-> price,
                              record |-> [id |-> r.id, from_date |-> r.from_date] ]]
          /\ pc' = [pc EXCEPT ![c] = "update"]
          /\ ret' = Pending
    /\ UNCHANGED <<stock_queries, session>>

UpdateRealHarga(table, id, price) ==
    { IF r.id = id THEN [r EXCEPT !.real_harga = {price}] ELSE r : r \in table }

UpdatePreviousDayRealPriceUpdate(c, err) ==
    /\ pc[c] = "update"
    /\ call' = [ op |-> "updatePreviousDayRealPrice", emiten |-> local[c].emiten,
                 currentDate |-> local[c].currentDate, price |-> local[c].price ]
    /\ IF err
       THEN /\ ret' = Returned(Null, TRUE, "update:error")
            /\ UNCHANGED stock_queries
       ELSE /\ stock_queries' =
                 UpdateRealHarga(stock_queries, local[c].record.id, local[c].price)
            /\ ret' = Returned(
                        Rows({ r \in stock_queries' : r.id = local[c].record.id }),
                        FALSE, "none")
    /\ pc' = [pc EXCEPT ![c] = "idle"]
    /\ local' = [local EXCEPT ![c] = NoLocal]
    /\ UNCHANGED session

----------------------------------------------------------------------------
(* getWatchlistAnalysisHistory: the query it builds *)

TheVal(S) == CHOOSE x \in S : TRUE

Restrict(f, D) == [k \in D |-> f[k]]

\* JavaScript truthiness of an optional property: a string, a split string, a number
TruthyStr(filters, k) == k \in DOMAIN filters /\ filters[k] # ""
TruthySeq(filters, k) == k \in DOMAIN filters /\ filters[k] # <<>>
TruthyNum(filters, k) == k \in DOMAIN filters /\ filters[k] # 0

IsWs(ch) == ch = " "

\* String.prototype.split(/\s+/): the pieces between the maximal whitespace runs
RECURSIVE SplitWs(_, _, _, _)
SplitWs(s, i, cur, inWs) ==
    IF i > Len(s) THEN <<cur>>
    ELSE IF IsWs(s[i])
         THEN (IF inWs THEN SplitWs(s, i + 1, cur, TRUE)
                       ELSE <<cur>> \o SplitWs(s, i + 1, <<>>, TRUE))
         ELSE SplitWs(s, i + 1, Append(cur, s[i]), FALSE)

NonEmpty(t) == t # <<>>

\* .filter(Boolean)
FilterBoolean(list) == SelectSeq(list, NonEmpty)

EmitenList(filters) == FilterBoolean(SplitWs(filters.emiten, 1, <<>>, FALSE))

SeqRange(list) == { list[i] : i \in 1 .. Len(list) }

SortByOf(filters) ==
    IF TruthyStr(filters, "sortBy") THEN filters.sortBy ELSE "from_date"

SortOrderOf(filters) ==
    IF TruthyStr(filters, "sortOrder") THEN filters.sortOrder ELSE "desc"

OrderClauses_SameDirection(filters) ==
    IF SortByOf(filters) \in {"combined", "emiten"}
    THEN << [column |-> IF SortByOf(filters) = "emiten" THEN "emiten" ELSE "from_date",
             ascending |-> SortOrderOf(filters) = "asc"],
            [column |-> IF SortByOf(filters) = "emiten" THEN "from_date" ELSE "emiten",
             ascending |-> SortOrderOf(filters) = "asc"] >>
    ELSE << [column |-> SortByOf(filters), ascending |-> SortOrderOf(filters) = "asc"] >>

\* the .order() calls, in the order the code makes them
OrderClauses(filters) ==
    IF SortByOf(filters) = "combined"
    THEN << [column |-> "from_date", ascending |-> SortOrderOf(filters) = "asc"],
            [column |-> "emiten", ascending |-> SortOrderOf(filters) = "asc"] >>
    ELSE IF SortByOf(filters) = "emiten"
    THEN << [column |-> "emiten", ascending |-> SortOrderOf(filters) = "asc"],
            [column |-> "from_date", ascending |-> TRUE] >>
    ELSE << [column |-> SortByOf(filters), ascending |-> SortOrderOf(filters) = "asc"] >>

InEmiten_Always(filters) ==
    IF TruthySeq(filters, "emiten")
    THEN {SeqRange(EmitenList(filters))}
    ELSE {}

\* .in('emiten', emitenList): {} when no membership filter is applied
InEmiten(filters) ==
    IF TruthySeq(filters, "emiten") /\ Len(EmitenList(filters)) > 0
    THEN {SeqRange(EmitenList(filters))}
    ELSE {}

\* the page size .range() uses when no limit is given
DefaultRange == 50

LimitOr(filters) ==
    IF TruthyNum(filters, "limit") THEN filters.limit ELSE DefaultRange

\* .limit(n) sets the query's limit; .range(from, to) sets its offset to from and
\* its limit to to - from + 1, replacing an earlier .limit()
LimitOf(filters) ==
    IF TruthyNum(filters, "offset")
    THEN {(filters.offset + LimitOr(filters) - 1) - filters.offset + 1}
    ELSE IF TruthyNum(filters, "limit") THEN {filters.limit} ELSE {}

OffsetOf(filters) ==
    IF TruthyNum(filters, "offset") THEN {filters.offset} ELSE {}

BuildQuery(filters) ==
    [ order     |-> OrderClauses(filters),
      in_emiten |-> InEmiten(filters),
      eq_sector |-> IF TruthyStr(filters, "sector") THEN {filters.sector} ELSE {},
      gte_date  |-> IF "fromDate" \in DOMAIN filters THEN {filters.fromDate} ELSE {},
      lte_date  |-> IF "toDate" \in DOMAIN filters THEN {filters.toDate} ELSE {},
      eq_status |-> IF TruthyStr(filters, "status") THEN {filters.status} ELSE {},
      limit     |-> LimitOf(filters),
      offset    |-> OffsetOf(filters) ]

----------------------------------------------------------------------------
(* getWatchlistAnalysisHistory: the store's execution of the query *)

CharCode(ch) == CASE ch = " " -> 32 [] ch = "A" -> 65 [] ch = "B" -> 66

RECURSIVE TextLess(_, _)
TextLess(a, b) ==
    IF b = <<>> THEN FALSE
    ELSE IF a = <<>> THEN TRUE
    ELSE IF Head(a) # Head(b) THEN CharCode(Head(a)) < CharCode(Head(b))
    ELSE TextLess(Tail(a), Tail(b))

\* ascending order of one column; NULL sorts after every value
ColLess(column, a, b) ==
    CASE column = "from_date" -> a.from_date < b.from_date
      [] column = "emiten"    -> TextLess(a.emiten, b.emiten)
      [] column = "harga"     ->
            /\ a.harga # NULL
            /\ (b.harga = NULL \/ TheVal(a.harga) < TheVal(b.harga))

ClauseBefore(cl, a, b) ==
    IF cl.ascending THEN ColLess(cl.column, a, b) ELSE ColLess(cl.column, b, a)

\* a sorts strictly before b under ORDER BY order
Before(order, a, b) ==
    \E i \in 1 .. Len(order) :
        /\ ClauseBefore(order[i], a, b)
        /\ \A j \in 1 .. (i - 1) :
              ~ClauseBefore(order[j], a, b) /\ ~ClauseBefore(order[j], b, a)

\* every sequence of the rows S that ORDER BY order allows: rows that tie come in any order
RECURSIVE SortedSeqs(_, _)
SortedSeqs(S, order) ==
    IF S = {} THEN {<<>>}
    ELSE UNION { { <<m>> \o t : t \in SortedSeqs(S \ {m}, order) } :
                 m \in { x \in S : \A y \in S : ~Before(order, y, x) } }

Matches(q, r) ==
    /\ \A list \in q.in_emiten : r.emiten \in list
    /\ \A v \in q.eq_sector : r.sector = {v}
    /\ \A v \in q.gte_date : r.from_date >= v
    /\ \A v \in q.lte_date : r.from_date <= v
    /\ \A v \in q.eq_status : r.status = {v}

Matched(q, table) == { r \in table : Matches(q, r) }

Min(a, b) == IF a < b THEN a ELSE b

\* OFFSET and LIMIT on the sorted rows
Window(s, q) ==
    LET from == IF q.offset = {} THEN 0 ELSE TheVal(q.offset)
        to   == IF q.limit = {} THEN Len(s) ELSE Min(Len(s), from + TheVal(q.limit))
    IN  SubSeq(s, from + 1, to)

\* the pages the store may answer with; count: 'exact' counts the matched rows
Execute(q, table) ==
    { Page(Window(s, q), Cardinality(Matched(q, table))) :
        s \in SortedSeqs(Matched(q, table), q.order) }

GetWatchlistAnalysisHistory(c, filters, err) ==
    /\ pc[c] = "idle"
    /\ call' = [op |-> "getWatchlistAnalysisHistory", filters |-> filters]
    /\ IF err
       THEN ret' = Thrown(TRUE, "select:error")
       ELSE \E page \in Execute(BuildQuery(filters), stock_queries) :
                ret' = Returned(page, FALSE, "none")
    /\ UNCHANGED <<stock_queries, session, pc, local>>

----------------------------------------------------------------------------
(* The specifications *)

Init ==
    /\ stock_queries = {}
    /\ session = {}
    /\ pc = [c \in Clients |-> "idle"]
    /\ local = [c \in Clients |-> NoLocal]
    /\ call = NoCall
    /\ ret = Pending

CurrentDates == 1 .. MaxDate + 1

\* the filter sets the interleaved specification calls getWatchlistAnalysisHistory with
MainFilters == { <<>>, [status |-> "success", sortBy |-> "emiten"] }

\* any interleaving of the clients' store calls
Next ==
    \/ \E c \in Clients, err \in BOOLEAN, data \in StockQueryData :
          SaveStockQuery(c, data, err)
    \/ \E c \in Clients, err \in BOOLEAN, data \in WatchlistData :
          SaveWatchlistAnalysis(c, data, err)
    \/ \E c \in Clients, err \in BOOLEAN, key \in Keys :
          GetSessionValue(c, key, err)
    \/ \E c \in Clients, err \in BOOLEAN, key \in Keys, value \in Values, now \in Times :
          UpsertSession(c, key, value, now, err)
    \/ \E c \in Clients, err \in BOOLEAN, emiten \in Emitens :
          GetLatestStockQuery(c, emiten, err)
    \/ \E c \in Clients, err \in BOOLEAN, emiten \in Emitens,
          currentDate \in CurrentDates, price \in Prices :
          UpdatePreviousDayRealPriceFind(c, emiten, currentDate, price, err)
    \/ \E c \in Clients, err \in BOOLEAN :
          UpdatePreviousDayRealPriceUpdate(c, err)
    \/ \E c \in Clients, err \in BOOLEAN, filters \in MainFilters :
          GetWatchlistAnalysisHistory(c, filters, err)

Spec == Init /\ [][Next]_vars

\* no other client is between the two store calls of updatePreviousDayRealPrice
Alone(c) == \A d \in Clients \ {c} : pc[d] = "idle"

\* one exported function at a time
NextSerial ==
    \/ \E c \in Clients, err \in BOOLEAN, data \in StockQueryData :
          Alone(c) /\ SaveStockQuery(c, data, err)
    \/ \E c \in Clients, err \in BOOLEAN, data \in WatchlistData :
          Alone(c) /\ SaveWatchlistAnalysis(c, data, err)
    \/ \E c \in Clients, err \in BOOLEAN, key \in Keys :
          Alone(c) /\ GetSessionValue(c, key, err)
    \/ \E c \in Clients, err \in BOOLEAN, key \in Keys, value \in Values, now \in Times :
          Alone(c) /\ UpsertSession(c, key, value, now, err)
    \/ \E c \in Clients, err \in BOOLEAN, emiten \in Emitens :
          Alone(c) /\ GetLatestStockQuery(c, emiten, err)
    \/ \E c \in Clients, err \in BOOLEAN, emiten \in Emitens,
          currentDate \in CurrentDates, price \in Prices :
          Alone(c) /\ UpdatePreviousDayRealPriceFind(c, emiten, currentDate, price, err)
    \/ \E c \in Clients, err \in BOOLEAN :
          Alone(c) /\ UpdatePreviousDayRealPriceUpdate(c, err)
    \/ \E c \in Clients, err \in BOOLEAN, filters \in MainFilters :
          Alone(c) /\ GetWatchlistAnalysisHistory(c, filters, err)

SpecSerial == Init /\ [][NextSerial]_vars

----------------------------------------------------------------------------
(* getWatchlistAnalysisHistory on stored tables: filtering and sorting *)

FetchDates == {1, 2}

FetchAttrs ==
    { [sector |-> {"S1"}, status |-> {"success"}, harga |-> {1}],
      [sector |-> {"S2"}, status |-> {"success"}, harga |-> {2}],
      [sector |-> {"S1"}, status |-> {"error"},   harga |-> NULL] }

StoredRow(e, d, a) ==
    [ id |-> <<e, d>>, emiten |-> e, from_date |-> d, sector |-> a.sector,
      status |-> a.status, harga |-> a.harga, real_harga |-> NULL ]

UniqueKeys(table) ==
    \A r1, r2 \in table :
        (r1.emiten = r2.emiten /\ r1.from_date = r2.from_date) => r1 = r2

\* tables the upserts can build: one row per (emiten, from_date)
FetchTables ==
    { T \in SUBSET { StoredRow(e, d, a) :
                        e \in Emitens, d \in FetchDates, a \in FetchAttrs } :
        UniqueKeys(T) }

Strings == UNION { [1 .. n -> Chars] : n \in 0 .. MaxLen }

SortFilters ==
    { Restrict(f, D) :
        f \in [ sortBy : {"", "combined", "emiten", "harga"},
                sortOrder : {"asc", "desc"}, status : {"success"}, limit : {3} ],
        D \in SUBSET {"sortBy", "sortOrder", "status", "limit"} }

EmitenFilters ==
    { Restrict(f, D) :
        f \in [ emiten : Strings, sector : {"S1"}, status : {"success"},
                fromDate : {2}, toDate : {1}, limit : {1}, offset : {1} ],
        D \in SUBSET {"emiten", "sector", "status", "fromDate", "toDate",
                      "limit", "offset"} }

InitFetch ==
    /\ stock_queries \in FetchTables
    /\ session = {}
    /\ pc = [c \in Clients |-> "idle"]
    /\ local = [c \in Clients |-> NoLocal]
    /\ call = NoCall
    /\ ret = Pending

\* one call on each table
NextFetch ==
    /\ call = NoCall
    /\ \E c \in Clients, err \in BOOLEAN, filters \in SortFilters \cup EmitenFilters :
          GetWatchlistAnalysisHistory(c, filters, err)

SpecFetch == InitFetch /\ [][NextFetch]_vars

----------------------------------------------------------------------------
(* getWatchlistAnalysisHistory on long tables: pagination *)

EmitenOf(i) == IF i % 2 = 0 THEN <<"A">> ELSE <<"B">>

\* the table of n rows that n upserts of successive days' analyses build
PageTable(n) ==
    { StoredRow(EmitenOf(i), (i \div 2) + 1,
                [sector |-> {"S1"}, status |-> {"success"}, harga |-> {1}]) :
        i \in 0 .. (n - 1) }

PageSizes == {0, DefaultRange - 1, DefaultRange, MaxPageRows}

PageFilters ==
    { Restrict(f, D) :
        f \in [ sortBy : {"combined", "emiten"}, sortOrder : {"asc"},
                limit : {0, 10}, offset : {0, 20, DefaultRange} ],
        D \in { E \in SUBSET {"sortBy", "sortOrder", "limit", "offset"} :
                  "sortBy" \in E } }

InitPage ==
    /\ \E n \in PageSizes : stock_queries = PageTable(n)
    /\ session = {}
    /\ pc = [c \in Clients |-> "idle"]
    /\ local = [c \in Clients |-> NoLocal]
    /\ call = NoCall
    /\ ret = Pending

NextPage ==
    /\ call = NoCall
    /\ \E c \in Clients, err \in BOOLEAN, filters \in PageFilters :
          GetWatchlistAnalysisHistory(c, filters, err)

SpecPage == InitPage /\ [][NextPage]_vars

----------------------------------------------------------------------------
(* Properties *)

SaveOps == {"saveStockQuery", "saveWatchlistAnalysis"}

IsFetchReturn ==
    call.op = "getWatchlistAnalysisHistory" /\ ret.outcome = "return"

\* the successful records of emiten strictly before day D
PriorSuccess(table, e, D) ==
    { r \in table : r.emiten = e /\ r.status = {"success"} /\ r.from_date < D }

MostRecent(S) == { r \in S : \A x \in S : x.from_date <= r.from_date }

\* a step that is the lookup of updatePreviousDayRealPrice
FindStep ==
    /\ call'.op = "updatePreviousDayRealPrice"
    /\ \E c \in Clients : pc[c] = "idle" /\ (pc' = pc \/ pc'[c] = "update")

\* a step that is client c's update by id, answered without error
UpdateStep(c) ==
    pc[c] = "update" /\ pc'[c] = "idle" /\ ret'.error = "none"

\* C1: whenever offset is present (offset >= 0) and limit is positive or absent,
\* the rows returned are the rows at positions offset .. offset + (limit or 50) - 1
\* of the unpaginated, filtered, sorted result.
C1_OffsetWindow ==
    ( /\ IsFetchReturn
      /\ "offset" \in DOMAIN call.filters
      /\ call.filters.offset >= 0
      /\ ("limit" \in DOMAIN call.filters => call.filters.limit > 0) )
    => LET f    == call.filters
           size == IF "limit" \in DOMAIN f THEN f.limit ELSE 50
           full == SortedSeqs(Matched(BuildQuery(f), stock_queries), OrderClauses(f))
       IN  \E s \in full :
              ret.value.data =
                 [ i \in 1 .. (Min(Len(s), f.offset + size) - Min(Len(s), f.offset))
                     |-> s[f.offset + i] ]

\* C2: the rows come in the order of the resolved sort keys: "combined" is
\* (from_date, emiten) both in the requested direction; "emiten" is emiten in the
\* requested direction, then from_date ascending (strictly, within a ticker); any
\* other sortBy is that one column in the requested direction; an absent sortBy
\* is from_date and an absent sortOrder is descending.
C2_Ordered(a, b) ==
    LET f      == call.filters
        by     == IF "sortBy" \in DOMAIN f /\ f.sortBy # "" THEN f.sortBy ELSE "from_date"
        asc    == "sortOrder" \in DOMAIN f /\ f.sortOrder = "asc"
        first  == IF asc THEN a ELSE b
        second == IF asc THEN b ELSE a
    IN  CASE by = "combined" ->
               \/ first.from_date < second.from_date
               \/ /\ first.from_date = second.from_date
                  /\ (first.emiten = second.emiten \/ TextLess(first.emiten, second.emiten))
          [] by = "emiten" ->
               \/ TextLess(first.emiten, second.emiten)
               \/ a.emiten = b.emiten /\ a.from_date < b.from_date
          [] by = "from_date" -> first.from_date <= second.from_date
          [] by = "harga" ->
               (a.harga # NULL /\ b.harga # NULL)
                  => TheVal(first.harga) <= TheVal(second.harga)

C2_SortOrder ==
    IsFetchReturn =>
        \A i, j \in 1 .. Len(ret.value.data) :
            i < j => C2_Ordered(ret.value.data[i], ret.value.data[j])

C2_Witness ==
    /\ IsFetchReturn
    /\ "sortBy" \in DOMAIN call.filters /\ call.filters.sortBy = "emiten"
    /\ "sortOrder" \in DOMAIN call.filters /\ call.filters.sortOrder = "desc"
    /\ Len(ret.value.data) = 4
    /\ ret.value.data[1].emiten = <<"B">> /\ ret.value.data[1].from_date = 1
    /\ ret.value.data[2].emiten = <<"B">> /\ ret.value.data[2].from_date = 2
    /\ ret.value.data[3].emiten = <<"A">> /\ ret.value.data[3].from_date = 1
    /\ ret.value.data[4].emiten = <<"A">> /\ ret.value.data[4].from_date = 2

\* t is one of the whitespace-separated tokens of the string s
IsToken(s, t) ==
    \E i, j \in 1 .. Len(s) :
        /\ i <= j
        /\ t = [k \in 1 .. (j - i + 1) |-> s[i + k - 1]]
        /\ \A k \in i .. j : s[k] # " "
        /\ (i = 1 \/ s[i - 1] = " ")
        /\ (j = Len(s) \/ s[j + 1] = " ")

HasToken(s) == \E i \in 1 .. Len(s) : s[i] # " "

WithoutEmiten(f) == Restrict(f, DOMAIN f \ {"emiten"})

\* C3: an emiten filter with no token (whitespace only) gives the answer of the
\* same call without the emiten filter; with at least one token a row is kept
\* iff its emiten is one of the tokens (and it passes the other filters).
C3_EmitenFilter ==
    (IsFetchReturn /\ "emiten" \in DOMAIN call.filters)
    => LET f    == call.filters
           rest == Matched(BuildQuery(WithoutEmiten(f)), stock_queries)
           kept == { r \in rest : IsToken(f.emiten, r.emiten) }
       IN  IF HasToken(f.emiten)
           THEN /\ ret.value.count = Cardinality(kept)
                /\ SeqRange(ret.value.data) \subseteq kept
                /\ (DOMAIN f \cap {"limit", "offset"} = {}
                       => SeqRange(ret.value.data) = kept)
           ELSE ret.value \in Execute(BuildQuery(WithoutEmiten(f)), stock_queries)

C3_Witness ==
    /\ IsFetchReturn
    /\ "emiten" \in DOMAIN call.filters
    /\ call.filters.emiten = <<" ", " ">>
    /\ DOMAIN call.filters = {"emiten"}
    /\ ret.value.count = 4
    /\ Len(ret.value.data) = 4

C4_Unique ==
    /\ \A r1, r2 \in stock_queries :
          (r1.emiten = r2.emiten /\ r1.from_date = r2.from_date) => r1 = r2
    /\ \A e1, e2 \in session : e1.key = e2.key => e1 = e2

C4_NoDelete ==
    /\ \A r \in stock_queries :
          \E n \in stock_queries' :
              n.id = r.id /\ n.emiten = r.emiten /\ n.from_date = r.from_date
    /\ \A e \in session : \E n \in session' : n.key = e.key

\* C4: under every interleaving, stock_queries holds at most one row per
\* (emiten, from_date), session at most one entry per key, and no step deletes a
\* row or an entry.
C4_OneRowPerKey == [][C4_Unique /\ C4_Unique' /\ C4_NoDelete]_vars

\* a key was written by both save functions and the table is full
C4_Witness ==
    /\ Cardinality(stock_queries) = MaxRows
    /\ \E r \in stock_queries : r.status # NULL /\ r.harga # NULL
    /\ \E e \in session : e.value = "w"

C5_Post ==
    (call.op \in SaveOps /\ ret.outcome = "return")
    => LET K == { r \in stock_queries :
                    r.emiten = call.data.emiten /\ r.from_date = call.data.from_date }
       IN  /\ Cardinality(K) = 1
           /\ \A r \in K : \A k \in DOMAIN call.data :
                 r[k] = IF k \in {"emiten", "from_date"}
                        THEN call.data[k] ELSE {call.data[k]}

C5_Idempotent ==
    ( /\ call.op \in SaveOps /\ ret.outcome = "return"
      /\ call' = call /\ ret'.outcome = "return" )
    => stock_queries' = stock_queries

\* C5: after an upsert returns, exactly one row has the payload's
\* (from_date, emiten) and it carries every value of the payload, whatever the
\* row held before; the same upsert made again changes nothing.
C5_UpsertOverwrites == [][C5_Post' /\ C5_Idempotent]_vars

\* a second upsert, with another payload, on a key that an upsert had written
C5_Witness ==
    /\ call.op = "saveWatchlistAnalysis" /\ ret.outcome = "return"
    /\ call.data.status = "error"
    /\ \E r \in stock_queries :
          /\ r.emiten = call.data.emiten /\ r.from_date = call.data.from_date
          /\ r.harga # NULL /\ r.real_harga # NULL

\* C6: with no successful record of emiten before D, or when the lookup fails,
\* the call changes no row, issues no update and returns null.
C6_NoOp ==
    [][ ( /\ FindStep
          /\ \/ PriorSuccess(stock_queries, call'.emiten, call'.currentDate) = {}
             \/ ret'.outcome = "return" /\ ret'.error = "select:error" )
        => /\ stock_queries' = stock_queries
           /\ pc' = pc
           /\ ret'.outcome = "return"
           /\ ret'.value = Null ]_vars

\* the no-op on a table that holds a record of the emiten on day D itself
C6_Witness ==
    /\ call.op = "updatePreviousDayRealPrice"
    /\ ret.outcome = "return" /\ ret.error = "select:PGRST116"
    /\ \E r \in stock_queries :
          /\ r.emiten = call.emiten /\ r.status = {"success"}
          /\ r.from_date = call.currentDate

\* C7: a store error on a write (the upserts, the update by id) is logged and
\* thrown to the caller; the function does not return normally.
C7_WriteErrorsThrown ==
    (ret.outcome # "pending" /\ ret.error \in {"upsert:error", "update:error"})
    => (ret.outcome = "throw" /\ ret.logged)

\* C8: run alone on a table holding a successful record of emiten before
\* currentDate, the call sets real_harga = price on the one such record with the
\* greatest from_date and changes nothing else.
C8_PatchesMostRecent ==
    [][ /\ \A c \in Clients :
              UpdateStep(c)
              => LET T == MostRecent(PriorSuccess(stock_queries,
                                        local[c].emiten, local[c].currentDate))
                 IN  /\ Cardinality(T) = 1
                     /\ stock_queries' =
                           (stock_queries \ T)
                              \cup { [r EXCEPT !.real_harga = {local[c].price}] : r \in T }
        /\ ( /\ FindStep
             /\ PriorSuccess(stock_queries, call'.emiten, call'.currentDate) # {}
             /\ ~(ret'.outcome = "return" /\ ret'.error = "select:error") )
           => /\ ret' = Pending
              /\ \E c \in Clients :
                    /\ pc'[c] = "update"
                    /\ \E r \in MostRecent(PriorSuccess(stock_queries,
                                              call'.emiten, call'.currentDate)) :
                          local'[c].record.id = r.id ]_vars

\* the later of two successful records is patched; the earlier, a record on
\* currentDate and a failed record are not
C8_Witness ==
    /\ call.op = "updatePreviousDayRealPrice"
    /\ ret.outcome = "return" /\ ret.value.kind = "rows"
    /\ \E r1, r2 \in stock_queries :
          /\ r1.emiten = call.emiten /\ r2.emiten = call.emiten
          /\ r1.from_date < r2.from_date /\ r2.from_date < call.currentDate
          /\ r1.status = {"success"} /\ r2.status = {"success"}
          /\ r1.real_harga = NULL /\ r2.real_harga = {call.price}

C9_Frame == stock_queries' = stock_queries /\ session' = session

\* C9: getLatestStockQuery returns the successful record of the emiten with the
\* greatest from_date, and null when there is none or the query fails;
\* getSessionValue returns the stored value, and null on a missing key or an
\* error; getWatchlistAnalysisHistory throws when its query fails and returns a
\* page otherwise; none of the three changes a table.
C9_ReadOutcomes ==
    [][ /\ call'.op = "getLatestStockQuery"
           => LET S == { r \in stock_queries :
                           r.emiten = call'.emiten /\ r.status = {"success"} }
              IN  /\ C9_Frame
                  /\ ret'.outcome = "return"
                  /\ IF ret'.error = "select:error" \/ S = {}
                     THEN ret'.value = Null
                     ELSE /\ ret'.value.kind = "row"
                          /\ ret'.value.data \in S
                          /\ \A x \in S : x.from_date <= ret'.value.data.from_date
        /\ call'.op = "getSessionValue"
           => LET E == { e \in session : e.key = call'.key }
              IN  /\ C9_Frame
                  /\ ret'.outcome = "return"
                  /\ IF ret'.error = "select:error" \/ E = {}
                     THEN ret'.value = Null
                     ELSE \E e \in E : ret'.value = Str(e.value)
        /\ call'.op = "getWatchlistAnalysisHistory"
           => /\ C9_Frame
              /\ IF ret'.error = "select:error"
                 THEN ret'.outcome = "throw"
                 ELSE ret'.outcome = "return" /\ ret'.value.kind = "page" ]_vars

\* the latest of two successful records of the emiten is returned
C9_Witness ==
    /\ call.op = "getLatestStockQuery"
    /\ ret.outcome = "return" /\ ret.value.kind = "row"
    /\ \E r \in stock_queries :
          /\ r.emiten = call.emiten /\ r.status = {"success"}
          /\ r.from_date < ret.value.data.from_date

\* C10: when other clients' upserts run between the lookup and the update, the
\* row whose real_harga is written still has the given emiten and a from_date
\* before currentDate, and is, at the update, still the most recent successful
\* record of the emiten before currentDate.
C10_StillMostRecent ==
    [][ \A c \in Clients :
           UpdateStep(c)
           => \A r \in stock_queries :
                 r.id = local[c].record.id
                 => /\ r.emiten = local[c].emiten
                    /\ r.from_date < local[c].currentDate
                    /\ r \in MostRecent(PriorSuccess(stock_queries,
                                           local[c].emiten, local[c].currentDate)) ]_vars

====
